---- MODULE Spec2Model ----
(***************************************************************************)
(* Model of the website price tracker add-on                               *)
(* (src/website_price_tracker/app/app.py): the scheduler loop with its     *)
(* force-refresh latch, the per-target scrape cycle and the plausibility   *)
(* correction of an extracted price.  The older add-on                     *)
(* (src/jura_s8_price_addon/app/app.py) has the same scrape_once without   *)
(* the per-target divisor and a loop without the refresh latch.            *)
(*                                                                         *)
(* Granularity: asyncio runs the code between two awaits atomically.  The  *)
(* callbacks queued by call_soon_threadsafe (_apply_force_request) run     *)
(* only while the loop task is suspended: before its first step, in        *)
(* client.get, in the closing of the HTTP client, in asyncio.wait and in   *)
(* asyncio.sleep.                                                          *)
(*                                                                         *)
(* Numbers: a price is a rational [n, d] (value n/d); d = 0 is Python's    *)
(* None.  Comparisons cross-multiply, so a division by 100 or 10 is exact  *)
(* (the rounding of IEEE doubles is not modelled).                         *)
(***************************************************************************)
EXTENDS Integers, Sequences, FiniteSets, TLC

VARIABLES
    \* configuration, fixed by App.__init__
    run_time,                \* TRUE: calendar mode (self.run_time is set)
    scan_interval,           \* seconds between cycles in interval mode
    sites,                   \* the configured targets, in order
    min_price, max_price,    \* the plausibility bounds
    \* scheduler
    pc,                      \* position of the loop() task
    force_event,             \* "None" | "clear" | "set"
    pending_force_requests,  \* self._pending_force_requests
    scrape_lock,             \* "None" | "free" | "held"
    timeout,                 \* seconds of the sleep or wait in progress
    sleep_done, force_done,  \* the two tasks raced by _wait_for_force
    reason,                  \* tag of the cycle in flight or last started
    inflight,                \* number of scrape_once executions in progress
    \* scrape_once
    stage,                   \* "idle" | "returning" | "primary" | "retry" |
                             \* "emitted" | "closing"
    idx,                     \* index of the target being processed
    reqs,                    \* fetches issued for the current target
    pub,                     \* messages published for the current target
    outcomes,                \* per target of this cycle: "state" | "error"
    \* history
    sig_at,                  \* where the latched, still unserved request was applied
    served_from,             \* sig_at of the request that started the force cycle
    \* the result of extract_price handed to the corrector when the processing
    \* of one page is checked on its own
    extracted,
    page,                    \* the page given to extract_price
    xstage,                  \* "unread" | "returned" | "raised": extract_price
    num_in,                  \* the string given to normalize_euro
    num_out,                 \* its result, NotYet before the call
    \* the wall clock, where the calendar of loop() is followed in time
    now,                     \* datetime.now(), in seconds
    run_at,                  \* self.run_time, in seconds after midnight
    next_run                 \* target of loop(), 0 before it is computed

cfgvars   == <<run_time, scan_interval, sites, min_price, max_price>>
schedvars == <<pc, force_event, pending_force_requests, scrape_lock, timeout,
               sleep_done, force_done, reason, inflight>>
cyclevars == <<stage, idx, reqs, pub, outcomes>>
histvars  == <<sig_at, served_from>>
plausvars == <<extracted, page, xstage, num_in, num_out>>
clockvars == <<now, run_at, next_run>>
vars      == <<cfgvars, schedvars, cyclevars, histvars, plausvars, clockvars>>

----------------------------------------------------------------------------
(* Bounds of the model *)

MaxSites == 2
MaxPending == 2
MaxRawPrice == 1200
MaxBound == 12

----------------------------------------------------------------------------
(* Rational numbers *)

None == [n |-> 0, d |-> 0]
R(k) == [n |-> k, d |-> 1]
IsNone(x) == x.d = 0
Leq(x, y) == x.n * y.d <= y.n * x.d
Same(x, y) == x.n * y.d = y.n * x.d
Div(x, k) == [n |-> x.n, d |-> x.d * k]

----------------------------------------------------------------------------
(* Inputs of the environment *)

\* price_divisor of a target: try_float(...) or None, 0 standing for None
Divisors == {0, 10, -2}
SiteConfigs == UNION {[1..n -> Divisors] : n \in 0..MaxSites}

\* HTTP statuses a fetch may return; a transport exception is exc = TRUE
Statuses == {200, 403, 406, 404, 500}
Responses == {[exc |-> FALSE, status |-> s] : s \in Statuses}
                 \cup {[exc |-> TRUE, status |-> 0]}
Pending == [exc |-> FALSE, status |-> -1]

\* what extract_price returns for the fetched page: (price, currency, method)
ExtractResults ==
    { [price |-> None,    currency |-> "EUR", method |-> <<"none">>],
      [price |-> R(5),    currency |-> "EUR", method |-> <<"jsonld">>],
      [price |-> R(500),  currency |-> "EUR", method |-> <<"jsonld-root">>],
      [price |-> R(50),   currency |-> "EUR", method |-> <<"selector">>],
      [price |-> R(7000), currency |-> "EUR", method |-> <<"text-fallback">>] }

----------------------------------------------------------------------------
(* scrape_once: what is done with one fetched page *)

\* variant: a negative divisor divides by its magnitude
ApplyDivisor_abs(price, method, divisor) ==
    IF divisor # 0
    THEN [price |-> Div(price, IF divisor > 0 THEN divisor ELSE -divisor),
          method |-> Append(method, "+div")]
    ELSE [price |-> price, method |-> method]

\* lines 257-265: the per-target divisor
ApplyDivisor(price, method, divisor) ==
    IF divisor # 0 /\ divisor > 0
    THEN [price |-> Div(price, divisor), method |-> Append(method, "+div")]
    ELSE [price |-> price, method |-> method]

\* variant: the division by 10 is tried before the division by 100
Plausibility_div10first(price, method, lo, hi) ==
    IF Leq(lo, price) /\ Leq(price, hi)
    THEN [ok |-> TRUE, price |-> price, method |-> method]
    ELSE IF Leq(lo, Div(price, 10)) /\ Leq(Div(price, 10), hi)
    THEN [ok |-> TRUE, price |-> Div(price, 10),
          method |-> Append(method, "+heuristic_div10")]
    ELSE IF Leq(lo, Div(price, 100)) /\ Leq(Div(price, 100), hi)
    THEN [ok |-> TRUE, price |-> Div(price, 100),
          method |-> Append(method, "+heuristic_div100")]
    ELSE [ok |-> FALSE, price |-> price, method |-> method]

\* variant: the repairs look at the upper bound only
Plausibility_nolower(price, method, lo, hi) ==
    IF Leq(lo, price) /\ Leq(price, hi)
    THEN [ok |-> TRUE, price |-> price, method |-> method]
    ELSE IF Leq(Div(price, 100), hi)
    THEN [ok |-> TRUE, price |-> Div(price, 100),
          method |-> Append(method, "+heuristic_div100")]
    ELSE IF Leq(Div(price, 10), hi)
    THEN [ok |-> TRUE, price |-> Div(price, 10),
          method |-> Append(method, "+heuristic_div10")]
    ELSE [ok |-> FALSE, price |-> price, method |-> method]

\* lines 266-276: the bounds check and the two repairs
Plausibility(price, method, lo, hi) ==
    IF Leq(lo, price) /\ Leq(price, hi)
    THEN [ok |-> TRUE, price |-> price, method |-> method]
    ELSE IF Leq(lo, Div(price, 100)) /\ Leq(Div(price, 100), hi)
    THEN [ok |-> TRUE, price |-> Div(price, 100),
          method |-> Append(method, "+heuristic_div100")]
    ELSE IF Leq(lo, Div(price, 10)) /\ Leq(Div(price, 10), hi)
    THEN [ok |-> TRUE, price |-> Div(price, 10),
          method |-> Append(method, "+heuristic_div10")]
    ELSE [ok |-> FALSE, price |-> price, method |-> method]

\* publish_discovery: the retained discovery message of a target
Discovery(i) ==
    [topic |-> "config", site |-> i, payload |-> [unique_id |-> i]]

StateMsg(i, price) ==
    [topic |-> "state", site |-> i, payload |-> [price |-> price]]

AttrMsg(i, payload) ==
    [topic |-> "attr", site |-> i, payload |-> payload]

\* publish_error: a null state, then the error attributes
PublishError(i, msg, extra) ==
    <<StateMsg(i, None), AttrMsg(i, [error |-> msg] @@ extra)>>

\* lines 304-334: the state and the attributes of a checked target
PublishState(i, price, currency, method, hint, status) ==
    <<StateMsg(i, price),
      AttrMsg(i, [title |-> i, url |-> i, currency |-> currency,
                  source_method |-> Append(method, hint),
                  status_code |-> status])>>

HttpError(status) ==
    CASE status = 403 -> "HTTP 403"
      [] status = 404 -> "HTTP 404"
      [] status = 406 -> "HTTP 406"
      [] status = 500 -> "HTTP 500"
      [] OTHER -> "HTTP"

\* variant: no `continue` after the error of a price out of range
Process_nocontinue(i, ex, status, hint) ==
    IF IsNone(ex.price)
    THEN PublishState(i, ex.price, ex.currency, ex.method, hint, status)
    ELSE LET dv == ApplyDivisor(ex.price, ex.method, sites[i])
             fx == Plausibility(dv.price, dv.method, min_price, max_price)
         IN  IF fx.ok
             THEN PublishState(i, fx.price, ex.currency, fx.method, hint, status)
             ELSE PublishError(i, "price_out_of_range",
                               [title |-> i, raw_price |-> dv.price,
                                min |-> min_price, max |-> max_price,
                                method |-> dv.method])
                  \o PublishState(i, dv.price, ex.currency, dv.method, hint, status)

\* variant: the error reports the price after the last repair attempt
Process_rawfixed(i, ex, status, hint) ==
    IF IsNone(ex.price)
    THEN PublishState(i, ex.price, ex.currency, ex.method, hint, status)
    ELSE LET dv == ApplyDivisor(ex.price, ex.method, sites[i])
             fx == Plausibility(dv.price, dv.method, min_price, max_price)
         IN  IF fx.ok
             THEN PublishState(i, fx.price, ex.currency, fx.method, hint, status)
             ELSE PublishError(i, "price_out_of_range",
                               [title |-> i, raw_price |-> Div(dv.price, 10),
                                min |-> min_price, max |-> max_price,
                                method |-> dv.method])

\* variant: the bounds check and its repairs come before the divisor
Process_divlast(i, ex, status, hint) ==
    IF IsNone(ex.price)
    THEN PublishState(i, ex.price, ex.currency, ex.method, hint, status)
    ELSE LET fx == Plausibility(ex.price, ex.method, min_price, max_price)
             dv == ApplyDivisor(fx.price, fx.method, sites[i])
         IN  IF fx.ok
             THEN PublishState(i, dv.price, ex.currency, dv.method, hint, status)
             ELSE PublishError(i, "price_out_of_range",
                               [title |-> i, raw_price |-> dv.price,
                                min |-> min_price, max |-> max_price,
                                method |-> dv.method])

\* lines 253-334: from the extraction result to the published messages
Process(i, ex, status, hint) ==
    IF IsNone(ex.price)
    THEN PublishState(i, ex.price, ex.currency, ex.method, hint, status)
    ELSE LET dv == ApplyDivisor(ex.price, ex.method, sites[i])
             fx == Plausibility(dv.price, dv.method, min_price, max_price)
         IN  IF fx.ok
             THEN PublishState(i, fx.price, ex.currency, fx.method, hint, status)
             ELSE PublishError(i, "price_out_of_range",
                               [title |-> i, raw_price |-> dv.price,
                                min |-> min_price, max |-> max_price,
                                method |-> dv.method])

IsError(m) == m.topic = "attr" /\ "error" \in DOMAIN m.payload
IsAttrs(m) == m.topic = "attr" /\ "error" \notin DOMAIN m.payload

\* the records a target received: one entry per attribute message
Records(msgs) ==
    LET attrs == SelectSeq(msgs, LAMBDA m : m.topic = "attr")
    IN  [k \in 1..Len(attrs) |-> IF IsError(attrs[k]) THEN "error" ELSE "state"]

----------------------------------------------------------------------------
(* Strings and the conversion of a string to a number.  A string is a       *)
(* sequence of characters; the characters of the model are the digits, the  *)
(* two separators, the space, the minus sign and "x" for any other one.     *)

\* A value that several lines of a function use is bound once, as the
\* assignment in the code binds it: CHOOSE r \in {e(x) : x \in {v}} : TRUE
\* is e(x) for x = v.

DigitChars == <<"0", "1", "2", "3", "4", "5", "6", "7", "8", "9">>
Digits == {DigitChars[k] : k \in 1..10}
DigitVal(c) == (CHOOSE k \in 1..10 : DigitChars[k] = c) - 1

RECURSIVE IntOf(_)
\* int() of a string of digits
IntOf(digs) ==
    IF digs = <<>> THEN 0
    ELSE IntOf(SubSeq(digs, 1, Len(digs) - 1)) * 10 + DigitVal(digs[Len(digs)])

RECURSIVE Pow10(_)
Pow10(k) == IF k = 0 THEN 1 ELSE 10 * Pow10(k - 1)

RECURSIVE StrNat(_)
StrNat(n) ==
    IF n < 10 THEN <<DigitChars[n + 1]>>
    ELSE Append(StrNat(n \div 10), DigitChars[(n % 10) + 1])

\* str() of an integer
StrInt(n) == IF n < 0 THEN <<"-">> \o StrNat(-n) ELSE StrNat(n)

\* str.strip(), str.replace(old, ""), str.replace(old, new), str.find(c)
Strip(s) ==
    LET keep == {k \in 1..Len(s) : s[k] # " "}
    IN  IF keep = {} THEN <<>>
        ELSE SubSeq(s, CHOOSE k \in keep : \A j \in keep : k <= j,
                       CHOOSE k \in keep : \A j \in keep : j <= k)
Remove(s, old) == SelectSeq(s, LAMBDA c : c # old)
Replace(s, old, new) == [k \in 1..Len(s) |-> IF s[k] = old THEN new ELSE s[k]]
Contains(s, c) == \E k \in 1..Len(s) : s[k] = c
Find(s, c) ==
    IF Contains(s, c)
    THEN (CHOOSE k \in 1..Len(s) : s[k] = c /\ \A j \in 1..(k - 1) : s[j] # c) - 1
    ELSE -1

\* float() of a string: surrounding blanks, a sign, digits with at most one
\* point and at least one digit; anything else raises ValueError, which both
\* callers turn into None.  Exponents, "inf", "nan" and "_" need characters
\* the model does not have.
Float(s) ==
    LET t      == Strip(s)
        signed == t # <<>> /\ t[1] \in {"-", "+"}
        body   == IF signed THEN Tail(t) ELSE t
        digs   == SelectSeq(body, LAMBDA c : c \in Digits)
        points == {k \in 1..Len(body) : body[k] = "."}
        frac   == IF points = {} THEN 0
                  ELSE Len(body) - (CHOOSE k \in points : TRUE)
        sgn    == IF signed /\ t[1] = "-" THEN -1 ELSE 1
    IN  IF /\ digs # <<>>
           /\ \A k \in 1..Len(body) : body[k] \in Digits \cup {"."}
           /\ Cardinality(points) <= 1
        THEN [n |-> sgn * IntOf(digs), d |-> Pow10(frac)]
        ELSE None

\* variant: the separator that comes last is always the decimal point
normalize_euro_lastsep(num) ==
    LET candidate == Remove(Strip(num), " ")
    IN  IF Contains(candidate, ",") /\ Contains(candidate, ".")
        THEN IF Find(candidate, ".") < Find(candidate, ",")
             THEN Float(Replace(Remove(candidate, "."), ",", "."))
             ELSE Float(Remove(candidate, ","))
        ELSE Float(Replace(candidate, ",", "."))

\* normalize_euro, lines 563-575
normalize_euro(num) ==
    LET candidate == Remove(Strip(num), " ")
    IN  IF Contains(candidate, ",") /\ Contains(candidate, ".")
        THEN IF Find(candidate, ".") < Find(candidate, ",")
             THEN Float(Replace(Remove(candidate, "."), ",", "."))
             ELSE Float(Remove(candidate, ","))
        ELSE Float(Replace(Remove(candidate, "."), ",", "."))

----------------------------------------------------------------------------
(* extract_price.  A page is what the parsers find in it:                   *)
(*   ld    the items of the JSON script blocks, in document order (a block  *)
(*         that does not parse contributes none, lines 511-515);            *)
(*   hints for the META_HINTS selectors that select an element, in the      *)
(*         order of META_HINTS: whether the element has the attribute that  *)
(*         is read, and the number of the first PRICE_RE match in its value *)
(*         (<<>> when there is no match);                                   *)
(*   text  the numbers of the PRICE_RE matches in the text of the page.     *)

\* a JSON value: null, an integer, a string, a number with a fraction (s is
\* its str()), or anything else (an object, an array, true)
JNull == [t |-> "null", n |-> 0, s |-> <<>>]
JInt(k) == [t |-> "int", n |-> k, s |-> <<>>]
JStr(chars) == [t |-> "str", n |-> 0, s |-> chars]
JFloat(chars) == [t |-> "float", n |-> 0, s |-> chars]
JOther == [t |-> "other", n |-> 0, s |-> <<>>]

\* str(value)
PyStr(value) ==
    CASE value.t = "int" -> StrInt(value.n)
      [] value.t \in {"str", "float"} -> value.s
      [] OTHER -> <<"x">>

\* the truth value of `value` in `a or b`
Truthy(value) ==
    CASE value.t = "null" -> FALSE
      [] value.t = "int" -> value.n # 0
      [] value.t = "str" -> value.s # <<>>
      [] value.t = "float" -> Float(value.s).n # 0
      [] OTHER -> TRUE

\* try_float, lines 491-505
try_float(value) ==
    IF value.t = "null" THEN None
    ELSE LET candidate == Remove(Strip(PyStr(value)), " ")
         IN  IF Contains(candidate, ",") /\ Contains(candidate, ".")
             THEN IF Find(candidate, ".") < Find(candidate, ",")
                  THEN Float(Replace(Remove(candidate, "."), ",", "."))
                  ELSE Float(Remove(candidate, ","))
             ELSE Float(Replace(Remove(candidate, "."), ",", "."))

\* str.isdigit()
IsDigit(chars) == chars # <<>> /\ \A k \in 1..Len(chars) : chars[k] \in Digits

\* variant: 10000 itself is not taken for an amount in cents
as_eur_above(val) ==
    CHOOSE result \in
        { IF IsNone(parsed)
          THEN IF val.t = "str" /\ IsDigit(val.s) /\ IntOf(val.s) >= 10000
               THEN [n |-> IntOf(val.s), d |-> 100]
               ELSE None
          ELSE IF ~Leq(parsed, R(10000)) /\ val.t = "int"
          THEN Div(parsed, 100)
          ELSE parsed : parsed \in {try_float(val)} } : TRUE

\* _as_eur, lines 521-531
as_eur(val) ==
    CHOOSE result \in
        { IF IsNone(parsed)
          THEN IF val.t = "str" /\ IsDigit(val.s) /\ IntOf(val.s) >= 10000
               THEN [n |-> IntOf(val.s), d |-> 100]
               ELSE None
          ELSE IF Leq(R(10000), parsed) /\ val.t = "int"
          THEN Div(parsed, 100)
          ELSE parsed : parsed \in {try_float(val)} } : TRUE

\* the results of a strategy: a return value, nothing, or an exception
Hit(price, currency, method) ==
    [kind |-> "hit", price |-> price, currency |-> currency, method |-> method]
Miss == [kind |-> "miss", price |-> None, currency |-> "", method |-> <<>>]
Raised == [kind |-> "raised", price |-> None, currency |-> "", method |-> <<>>]

\* `.get("priceCurrency") or "EUR"`, `.get("priceCurrency", "EUR")`
Currency(c) == IF c = "" THEN "EUR" ELSE c

\* lines 533-538: the price of the item's offers
FromOffers(offers) ==
    IF ~offers.dict THEN Miss
    ELSE CHOOSE result \in
             { IF IsNone(converted) THEN Miss
               ELSE Hit(converted, Currency(offers.priceCurrency), <<"jsonld">>) :
                 converted \in {as_eur(IF Truthy(offers.price) THEN offers.price
                                       ELSE offers.lowPrice)} } : TRUE

\* lines 539-543: the item's own price
FromRoot(obj) ==
    IF ~obj.has_price THEN Miss
    ELSE CHOOSE result \in
             { IF IsNone(converted) THEN Miss
               ELSE Hit(converted, Currency(obj.priceCurrency), <<"jsonld-root">>) :
                 converted \in {as_eur(obj.price)} } : TRUE

\* lines 516-543: one item of a JSON block
FromItem(obj) ==
    IF ~obj.dict THEN Miss
    ELSE CHOOSE result \in
             { IF found.kind = "hit" THEN found ELSE FromRoot(obj) :
                 found \in {FromOffers(obj.offers)} } : TRUE

RECURSIVE FromLd(_)
\* lines 510-543: the first item that gives a price
FromLd(items) ==
    IF items = <<>> THEN Miss
    ELSE CHOOSE result \in
             { IF first.kind = "hit" THEN first ELSE FromLd(Tail(items)) :
                 first \in {FromItem(Head(items))} } : TRUE

\* META_HINTS, lines 22-31: the attribute read from the element, "" for its text
META_HINTS == <<"content", "content", "content", "", "data-price", "data-price", "", "">>
SelectorTag ==
    <<"selector:meta[property=product:price:amount]",
      "selector:meta[name=twitter:data1]",
      "selector:meta[itemprop=price]",
      "selector:span[itemprop=price]",
      "selector:div[data-price]",
      "selector:span[data-price]",
      "selector:div[class*=price]",
      "selector:span[class*=price]">>

RECURSIVE FromHints(_)
\* lines 545-552: element.get(attr) is None for an element without the
\* attribute, and None.strip() raises AttributeError
FromHints(hints) ==
    IF hints = <<>> THEN Miss
    ELSE LET h == Head(hints)
         IN  IF ~h.has_attr THEN Raised
             ELSE IF h.match # <<>>
             THEN Hit(normalize_euro(h.match), "EUR", <<SelectorTag[h.sel]>>)
             ELSE FromHints(Tail(hints))

RECURSIVE Sorted(_)
\* list.sort()
Sorted(xs) ==
    IF xs = <<>> THEN <<>>
    ELSE LET rest == Sorted(Tail(xs))
             x    == Head(xs)
             lo   == SelectSeq(rest, LAMBDA y : ~Leq(x, y))
             hi   == SelectSeq(rest, LAMBDA y : Leq(x, y))
         IN  lo \o <<x>> \o hi

\* variant: the smallest candidate
FromText_min(text) ==
    LET all        == [k \in 1..Len(text) |-> normalize_euro(text[k])]
        candidates == Sorted(SelectSeq(all, LAMBDA c : ~IsNone(c)))
    IN  IF candidates # <<>>
        THEN Hit(candidates[1], "EUR", <<"text-fallback">>)
        ELSE Miss

\* lines 554-559
FromText(text) ==
    LET all        == [k \in 1..Len(text) |-> normalize_euro(text[k])]
        candidates == Sorted(SelectSeq(all, LAMBDA c : ~IsNone(c)))
    IN  IF candidates # <<>>
        THEN Hit(candidates[(Len(candidates) \div 2) + 1], "EUR", <<"text-fallback">>)
        ELSE Miss

\* variant: the selectors are asked before the JSON blocks
extract_price_selectorfirst(content) ==
    CHOOSE result \in
        { IF selected.kind # "miss" THEN selected
          ELSE IF structured.kind = "hit" THEN structured
          ELSE IF fallback.kind = "hit" THEN fallback
          ELSE Hit(None, "EUR", <<"none">>) :
            structured \in {FromLd(content.ld)},
            selected \in {FromHints(content.hints)},
            fallback \in {FromText(content.text)} } : TRUE

\* extract_price, lines 508-560
extract_price(content) ==
    CHOOSE result \in
        { IF structured.kind = "hit" THEN structured
          ELSE IF selected.kind # "miss" THEN selected
          ELSE IF fallback.kind = "hit" THEN fallback
          ELSE Hit(None, "EUR", <<"none">>) :
            structured \in {FromLd(content.ld)},
            selected \in {FromHints(content.hints)},
            fallback \in {FromText(content.text)} } : TRUE

----------------------------------------------------------------------------
(* The scheduler: loop, _run_scrape, _wait_for_force, _apply_force_request *)

\* where loop() goes on after a cycle: `continue` with a run_time, else the
\* inner while of interval mode
AfterCycle == IF run_time THEN "top" ELSE "enter_wait"

\* the first fetch of target i: publish_discovery, then client.get
FirstFetch(i) ==
    /\ idx' = i
    /\ stage' = "primary"
    /\ reqs' = <<[profile |-> "primary", resp |-> Pending]>>
    /\ pub' = <<Discovery(i)>>

\* _run_scrape(reason) up to the first await of scrape_once
RunScrape(r) ==
    /\ scrape_lock # "held"
    /\ reason' = r
    /\ scrape_lock' = "held"
    /\ inflight' = inflight + 1
    /\ pc' = "scrape"
    /\ outcomes' = <<>>
    /\ IF sites = <<>>
       THEN stage' = "returning" /\ UNCHANGED <<idx, reqs, pub>>
       ELSE FirstFetch(1)

\* variant: loop() resets the counter without setting the event
LoopStart_drop ==
    /\ pc = "init"
    /\ pc' = "top"
    /\ force_event' = IF force_event = "None" THEN "clear" ELSE force_event
    /\ pending_force_requests' = 0
    /\ scrape_lock' = IF scrape_lock = "None" THEN "free" ELSE scrape_lock
    /\ UNCHANGED <<timeout, sleep_done, force_done, reason, inflight>>
    /\ UNCHANGED <<cfgvars, cyclevars, histvars, plausvars, clockvars>>

\* variant: loop() takes one request off the counter, the others stay counted
LoopStart_keepcount ==
    /\ pc = "init"
    /\ pc' = "top"
    /\ force_event' = IF pending_force_requests # 0 THEN "set"
                      ELSE IF force_event = "None" THEN "clear" ELSE force_event
    /\ pending_force_requests' =
          IF pending_force_requests # 0 THEN pending_force_requests - 1 ELSE 0
    /\ scrape_lock' = IF scrape_lock = "None" THEN "free" ELSE scrape_lock
    /\ UNCHANGED <<timeout, sleep_done, force_done, reason, inflight>>
    /\ UNCHANGED <<cfgvars, cyclevars, histvars, plausvars, clockvars>>

\* loop(), lines 452-458: the event and the lock are created, requests counted
\* before that become the latch
LoopStart ==
    /\ pc = "init"
    /\ pc' = "top"
    /\ force_event' = IF pending_force_requests # 0 THEN "set"
                      ELSE IF force_event = "None" THEN "clear" ELSE force_event
    /\ pending_force_requests' = 0
    /\ scrape_lock' = IF scrape_lock = "None" THEN "free" ELSE scrape_lock
    /\ UNCHANGED <<timeout, sleep_done, force_done, reason, inflight>>
    /\ UNCHANGED <<cfgvars, cyclevars, histvars, plausvars, clockvars>>

\* the waits of calendar mode: seconds to the next occurrence of run_time
CalendarWaits == {60, 86400}

\* loop(), lines 462-471 and 477: the top of the outer while
Top ==
    /\ pc = "top"
    /\ IF run_time
       THEN /\ \E w \in CalendarWaits : timeout' = w
            /\ pc' = "enter_wait"
            /\ UNCHANGED <<scrape_lock, reason, inflight, cyclevars, served_from>>
       ELSE /\ RunScrape("scheduled")
            /\ served_from' = "none"
            /\ timeout' = timeout
    /\ UNCHANGED <<force_event, pending_force_requests, sleep_done, force_done>>
    /\ UNCHANGED <<cfgvars, sig_at, plausvars, clockvars>>

\* variant: _wait_for_force without force_event.clear()
ForceReturned_noclear ==
    /\ RunScrape("force")
    /\ force_event' = force_event
    /\ served_from' = sig_at
    /\ sig_at' = "none"

\* what loop() does when _wait_for_force returns True
ForceReturned ==
    /\ RunScrape("force")
    /\ force_event' = "clear"
    /\ served_from' = sig_at
    /\ sig_at' = "none"

\* variant: in interval mode the expired wait is followed by another wait
TimerReturned_rewait ==
    /\ IF run_time
       THEN RunScrape("scheduled") /\ served_from' = "none"
       ELSE pc' = "enter_wait" /\ UNCHANGED <<scrape_lock, reason, inflight,
                                               cyclevars, served_from>>
    /\ UNCHANGED <<force_event, sig_at>>

\* what loop() does when _wait_for_force returns False: the scheduled cycle,
\* in interval mode after the break and the next pass of the outer while
TimerReturned ==
    /\ IF run_time
       THEN RunScrape("scheduled") /\ served_from' = "none"
       ELSE pc' = "top" /\ UNCHANGED <<scrape_lock, reason, inflight,
                                        cyclevars, served_from>>
    /\ UNCHANGED <<force_event, sig_at>>

\* _wait_for_force, lines 428-436: up to the await
EnterWait ==
    /\ pc = "enter_wait"
    /\ timeout' = IF run_time THEN timeout ELSE scan_interval
    /\ IF force_event = "set"
       THEN ForceReturned /\ UNCHANGED <<sleep_done, force_done>>
       ELSE IF timeout' <= 0
       THEN TimerReturned /\ UNCHANGED <<sleep_done, force_done>>
       ELSE /\ pc' = "wait"
            /\ sleep_done' = FALSE
            /\ force_done' = FALSE
            /\ UNCHANGED <<force_event, scrape_lock, reason, inflight,
                           cyclevars, histvars>>
    /\ UNCHANGED <<pending_force_requests, cfgvars, plausvars, clockvars>>

\* asyncio.sleep(timeout) of _wait_for_force completes
SleepDone ==
    /\ pc = "wait"
    /\ ~sleep_done
    /\ sleep_done' = TRUE
    /\ UNCHANGED <<pc, force_event, pending_force_requests, scrape_lock, timeout,
                   force_done, reason, inflight>>
    /\ UNCHANGED <<cfgvars, cyclevars, histvars, plausvars, clockvars>>

\* variant: the sleep task is looked at first
WaitReturns_sleepfirst ==
    /\ pc = "wait"
    /\ sleep_done \/ force_done
    /\ sleep_done' = FALSE
    /\ force_done' = FALSE
    /\ IF sleep_done THEN TimerReturned ELSE ForceReturned
    /\ UNCHANGED <<pending_force_requests, timeout, cfgvars, plausvars, clockvars>>

\* _wait_for_force, lines 437-449: asyncio.wait returns
WaitReturns ==
    /\ pc = "wait"
    /\ sleep_done \/ force_done
    /\ sleep_done' = FALSE
    /\ force_done' = FALSE
    /\ IF force_done THEN ForceReturned ELSE TimerReturned
    /\ UNCHANGED <<pending_force_requests, timeout, cfgvars, plausvars, clockvars>>

\* the loop task is suspended in an await: queued callbacks run
Suspended ==
    \/ pc \in {"init", "wait", "cooldown"}
    \/ pc = "scrape" /\ stage \in {"primary", "retry", "closing"}

\* the place a request is applied at
Where ==
    IF pc = "scrape" THEN "cycle" ELSE pc

\* variant: the callback runs scrape_once itself, beside the loop and its lock
ApplyForceRequest_spawn ==
    /\ Suspended
    /\ pc # "init"
    /\ inflight < 2
    /\ inflight' = inflight + 1
    /\ UNCHANGED <<pc, force_event, pending_force_requests, scrape_lock, timeout,
                   sleep_done, force_done, reason>>
    /\ UNCHANGED <<cfgvars, cyclevars, histvars, plausvars, clockvars>>

\* _apply_force_request, lines 410-414.  Event.set() wakes the task waiting
\* on the event; asyncio.wait sees that task done unless the sleep finished
\* first and the loop task is resumed before the woken task has run.
ApplyForceRequest ==
    /\ Suspended
    /\ IF force_event # "None"
       THEN /\ force_event' = "set"
            /\ pending_force_requests' = pending_force_requests
            /\ IF pc = "wait" /\ force_event = "clear"
               THEN \E woken \in (IF sleep_done THEN BOOLEAN ELSE {TRUE}) :
                        force_done' = woken
               ELSE force_done' = force_done
       ELSE /\ pending_force_requests < MaxPending
            /\ pending_force_requests' = pending_force_requests + 1
            /\ UNCHANGED <<force_event, force_done>>
    /\ sig_at' = IF sig_at = "none" THEN Where ELSE sig_at
    /\ UNCHANGED <<pc, scrape_lock, timeout, sleep_done, reason, inflight>>
    /\ UNCHANGED <<cfgvars, cyclevars, served_from, plausvars, clockvars>>

\* variant: the back-off forgets a request applied during it
CooldownEnds_clear ==
    /\ pc = "cooldown"
    /\ pc' = "top"
    /\ force_event' = "clear"
    /\ UNCHANGED <<pending_force_requests, scrape_lock, timeout,
                   sleep_done, force_done, reason, inflight>>
    /\ UNCHANGED <<cfgvars, cyclevars, histvars, plausvars, clockvars>>

\* asyncio.sleep(30) of the except branch is over
CooldownEnds ==
    /\ pc = "cooldown"
    /\ pc' = "top"
    /\ UNCHANGED <<force_event, pending_force_requests, scrape_lock, timeout,
                   sleep_done, force_done, reason, inflight>>
    /\ UNCHANGED <<cfgvars, cyclevars, histvars, plausvars, clockvars>>

----------------------------------------------------------------------------
(* scrape_once: the cycle over the targets *)

\* seconds of the back-off of loop() after an exception
Cooldown == 30

\* the target's messages are out: `continue`, or the end of the loop body
Emit(msgs) ==
    /\ pub' = pub \o msgs
    /\ outcomes' = Append(outcomes, [site |-> idx, records |-> Records(msgs)])
    /\ stage' = "emitted"
    /\ idx' = idx

Answered(resp) == [reqs EXCEPT ![Len(reqs)].resp = resp]

\* variant: the lock is released on the normal return only
Escape_keeplock ==
    /\ pc' = "cooldown"
    /\ timeout' = Cooldown
    /\ scrape_lock' = scrape_lock
    /\ inflight' = inflight - 1
    /\ stage' = "idle"
    /\ idx' = 0
    /\ reqs' = <<>>
    /\ pub' = <<>>
    /\ outcomes' = <<>>

\* an exception leaves scrape_once: the lock of _run_scrape is released and
\* loop() backs off (lines 483-488)
Escape ==
    /\ pc' = "cooldown"
    /\ timeout' = Cooldown
    /\ scrape_lock' = "free"
    /\ inflight' = inflight - 1
    /\ stage' = "idle"
    /\ idx' = 0
    /\ reqs' = <<>>
    /\ pub' = <<>>
    /\ outcomes' = <<>>

\* variant: every HTTP error status is retried
TryAlt_any(status) == status >= 400

\* line 210: the statuses that get the retry with the alternate headers
TryAlt(status) == status \in {403, 406}

\* what extract_price does with the fetched page: one of ExtractResults, or
\* an exception
ExtractOutcomes == ExtractResults \cup {Raised}

\* the schedule is untouched by an exception on its way to loop()
EscapeFrame ==
    UNCHANGED <<force_event, pending_force_requests, sleep_done, force_done, reason>>

\* line 253 is outside the try of lines 203-251: an exception of
\* extract_price leaves scrape_once
Extracted(ex, status, hint) ==
    IF ex = Raised
    THEN Escape /\ EscapeFrame
    ELSE /\ Emit(Process(idx, ex, status, hint))
         /\ reqs' = Answered([exc |-> FALSE, status |-> status])
         /\ UNCHANGED schedvars

\* lines 206-214 and 215-251: the primary fetch answers
PrimaryResponse ==
    /\ pc = "scrape"
    /\ stage = "primary"
    /\ \E resp \in Responses, ex \in ExtractOutcomes :
          LET try_alt == TryAlt(resp.status)
          IN  IF resp.exc
              THEN /\ Emit(PublishError(idx, "TransportError", <<>>))
                   /\ reqs' = Answered(resp)
                   /\ UNCHANGED schedvars
              ELSE IF resp.status < 400
              THEN Extracted(ex, resp.status, "+ok")
              ELSE IF try_alt
              THEN /\ reqs' = Append(Answered(resp),
                                     [profile |-> "alt", resp |-> Pending])
                   /\ stage' = "retry"
                   /\ UNCHANGED <<idx, pub, outcomes>>
                   /\ UNCHANGED schedvars
              ELSE /\ Emit(PublishError(idx, HttpError(resp.status), <<>>))
                   /\ reqs' = Answered(resp)
                   /\ UNCHANGED schedvars
    /\ UNCHANGED <<cfgvars, histvars, plausvars, clockvars>>

\* lines 230-236: the fetch with the alternate headers answers; it is awaited
\* inside the handler of HTTPStatusError, where no except clause applies
RetryResponse ==
    /\ pc = "scrape"
    /\ stage = "retry"
    /\ \E resp \in Responses, ex \in ExtractOutcomes :
          IF resp.exc
          THEN Escape /\ EscapeFrame
          ELSE Extracted(ex, resp.status, "+retry")
    /\ UNCHANGED <<cfgvars, histvars, plausvars, clockvars>>

\* line 201: the for loop takes the next target, or ends
NextTarget ==
    /\ pc = "scrape"
    /\ stage = "emitted"
    /\ IF idx < Len(sites)
       THEN FirstFetch(idx + 1) /\ UNCHANGED outcomes
       ELSE /\ stage' = "closing"
            /\ reqs' = <<>>
            /\ pub' = <<>>
            /\ UNCHANGED <<idx, outcomes>>
    /\ UNCHANGED <<schedvars, cfgvars, histvars, plausvars, clockvars>>

\* scrape_once returns (line 187, or after the client is closed) and
\* _run_scrape releases the lock
CycleEnd ==
    /\ pc = "scrape"
    /\ stage \in {"closing", "returning"}
    /\ pc' = AfterCycle
    /\ scrape_lock' = "free"
    /\ inflight' = inflight - 1
    /\ stage' = "idle"
    /\ idx' = 0
    /\ outcomes' = <<>>
    /\ UNCHANGED <<reqs, pub>>
    /\ UNCHANGED <<force_event, pending_force_requests, timeout, sleep_done,
                   force_done, reason>>
    /\ UNCHANGED <<cfgvars, histvars, plausvars, clockvars>>

----------------------------------------------------------------------------
(* The specification of the add-on *)

ScanIntervals == {0, 1800}

NoPage == [price |-> None, currency |-> "EUR", method |-> <<"none">>]
NoContent == [ld |-> <<>>, hints |-> <<>>, text |-> <<>>]
NotYet == [n |-> 0, d |-> -1]

\* nothing is being extracted or normalized on its own
IdleExtract ==
    /\ page = NoContent
    /\ xstage = "returned"
    /\ num_in = <<>>
    /\ num_out = NotYet

\* the clock is not followed
IdleClock ==
    /\ now = 0
    /\ run_at = 0
    /\ next_run = 0

IdleSched ==
    /\ pc = "init"
    /\ force_event = "None"
    /\ pending_force_requests = 0
    /\ scrape_lock = "None"
    /\ timeout = 0
    /\ sleep_done = FALSE
    /\ force_done = FALSE
    /\ reason = "none"
    /\ inflight = 0
    /\ stage = "idle"
    /\ idx = 0
    /\ reqs = <<>>
    /\ pub = <<>>
    /\ outcomes = <<>>
    /\ sig_at = "none"
    /\ served_from = "none"

Init ==
    /\ run_time \in BOOLEAN
    /\ scan_interval \in ScanIntervals
    /\ sites \in SiteConfigs
    /\ min_price = R(1)
    /\ max_price = R(10)
    /\ IdleSched
    /\ extracted = NoPage
    /\ IdleExtract
    /\ IdleClock

Next ==
    \/ LoopStart
    \/ Top
    \/ EnterWait
    \/ SleepDone
    \/ WaitReturns
    \/ ApplyForceRequest
    \/ CooldownEnds
    \/ PrimaryResponse
    \/ RetryResponse
    \/ NextTarget
    \/ CycleEnd

Spec == Init /\ [][Next]_vars

----------------------------------------------------------------------------
(* The correction of one extracted price, for every price and bounds *)

MaxLo == 3

InitPlaus ==
    /\ run_time = FALSE
    /\ scan_interval = 0
    /\ \E d \in Divisors : sites = <<d>>
    /\ \E k \in 0..MaxLo : min_price = R(k)
    /\ \E k \in 0..MaxBound : max_price = R(k)
    /\ IdleSched
    /\ \E k \in 0..MaxRawPrice :
          extracted = [price |-> R(k), currency |-> "EUR", method |-> <<"jsonld">>]
    /\ IdleExtract
    /\ IdleClock

\* lines 253-334 for the page of the only target, fetched with status 200
Correct ==
    /\ xstage = "returned"
    /\ pub = <<>>
    /\ pub' = Process(1, extracted, 200, "+ok")
    /\ UNCHANGED <<cfgvars, schedvars, stage, idx, reqs, outcomes, histvars,
                   plausvars, clockvars>>

NextPlaus == Correct

SpecPlaus == InitPlaus /\ [][NextPlaus]_vars

----------------------------------------------------------------------------
(* extract_price on its own, followed by the processing of its result *)

MaxBlocks == 2
MaxHints == 2
MaxMatches == 4
MaxPrioMatches == 2
MaxDelta == 50

\* numbers as PRICE_RE matches them: 1-4 digits, groups of a separator and
\* three digits, a separator and two digits (line 19)
N10 == <<"1", "0">>
N20 == <<"2", "0">>
N1000 == <<"1", "0", "0", "0">>
N19c99 == <<"1", "9", ",", "9", "9">>
N1c234c56 == <<"1", ",", "2", "3", "4", ",", "5", "6">>

\* JSON values of a price field
S12999 == <<"1", "2", "9", "9", "9">>
PriceValues ==
    { JNull, JInt(0), JInt(-5), JInt(9999), JInt(12999), JStr(S12999),
      JStr(N19c99), JStr(<<"x">>), JFloat(<<"1", "2", "9", ".", "9", "9">>),
      JOther }

NoOffers == [dict |-> FALSE, price |-> JNull, lowPrice |-> JNull, priceCurrency |-> ""]
Offers(price, low) ==
    [dict |-> TRUE, price |-> price, lowPrice |-> low, priceCurrency |-> "USD"]
NotADict ==
    [dict |-> FALSE, offers |-> NoOffers, has_price |-> FALSE, price |-> JNull,
     priceCurrency |-> ""]
OfferItem(price, low) ==
    [dict |-> TRUE, offers |-> Offers(price, low), has_price |-> FALSE,
     price |-> JNull, priceCurrency |-> ""]
RootItem(price) ==
    [dict |-> TRUE, offers |-> NoOffers, has_price |-> TRUE, price |-> price,
     priceCurrency |-> ""]

SeqsUpTo(S, n) == UNION {[1..k -> S] : k \in 0..n}

\* pages with JSON blocks only
JsonItems ==
    {NotADict} \cup {OfferItem(v, low) : v \in PriceValues, low \in {JNull, JInt(7)}}
               \cup {RootItem(v) : v \in PriceValues}
JsonPages ==
    {[ld |-> ld, hints |-> <<>>, text |-> <<>>] : ld \in SeqsUpTo(JsonItems, MaxBlocks)}

\* pages whose only price is a JSON integer around 0 and around 10000
CentsInts == ((-MaxDelta)..MaxDelta) \cup ((10000 - MaxDelta)..(10000 + MaxDelta))
IntPages ==
    {[ld |-> <<it>>, hints |-> <<>>, text |-> <<>>] :
        it \in {OfferItem(JInt(k), JNull) : k \in CentsInts}
                  \cup {RootItem(JInt(k)) : k \in CentsInts}}

\* the elements the selectors find: a meta element (attribute content, which
\* it may lack) and a span (its text)
HintEntries ==
    {[sel |-> k, has_attr |-> a, match |-> m] :
        k \in {1, 4}, a \in BOOLEAN, m \in {<<>>, N19c99, N1c234c56}}
HintSeqs ==
    {h \in SeqsUpTo(HintEntries, MaxHints) :
        /\ \A k \in 1..Len(h) : h[k].has_attr \/ (META_HINTS[h[k].sel] = "content" /\ h[k].match = <<>>)
        /\ \A j, k \in 1..Len(h) : j < k => h[j].sel < h[k].sel}

\* pages with prices in several places
PriorityPages ==
    {[ld |-> ld, hints |-> h, text |-> t] :
        ld \in {<<>>, <<OfferItem(JInt(12999), JNull)>>, <<RootItem(JStr(N19c99))>>,
                <<OfferItem(JStr(<<"x">>), JNull)>>},
        h \in HintSeqs,
        t \in SeqsUpTo({N20, N1c234c56}, MaxPrioMatches)}

\* pages with prices in the text only
TextPages ==
    {[ld |-> <<>>, hints |-> <<>>, text |-> t] :
        t \in SeqsUpTo({N10, N20, N1000, N1c234c56}, MaxMatches)}

Pages == JsonPages \cup IntPages \cup PriorityPages \cup TextPages

InitExtract ==
    /\ run_time = FALSE
    /\ scan_interval = 0
    /\ sites = <<0>>
    /\ min_price = R(1)
    /\ max_price = R(1000)
    /\ IdleSched
    /\ extracted = NoPage
    /\ page \in Pages
    /\ xstage = "unread"
    /\ num_in = <<>>
    /\ num_out = NotYet
    /\ IdleClock

\* line 253: extract_price(html); an exception leaves scrape_once
Extract ==
    /\ xstage = "unread"
    /\ LET r == extract_price(page)
       IN  IF r.kind = "raised"
           THEN xstage' = "raised" /\ extracted' = extracted
           ELSE /\ xstage' = "returned"
                /\ extracted' = [price |-> r.price, currency |-> r.currency,
                                 method |-> r.method]
    /\ UNCHANGED <<cfgvars, schedvars, cyclevars, histvars, page, num_in, num_out,
                   clockvars>>

NextExtract == Extract \/ Correct

SpecExtract == InitExtract /\ [][NextExtract]_vars

----------------------------------------------------------------------------
(* normalize_euro on its own *)

MaxLen == 5

Chars == {"1", "5", ".", ",", " ", "x"}

\* the examples of the documentation
NormExamples ==
    { <<"1", ".", "2", "3", "4", ",", "5", "6">>,
      <<"1", ",", "2", "3", "4", ".", "5", "6">>,
      N19c99,
      <<"1", ".", "2", "3", "4">>,
      N1c234c56 }

InitNorm ==
    /\ run_time = FALSE
    /\ scan_interval = 0
    /\ sites = <<>>
    /\ min_price = R(1)
    /\ max_price = R(10)
    /\ IdleSched
    /\ extracted = NoPage
    /\ page = NoContent
    /\ xstage = "returned"
    /\ num_in \in SeqsUpTo(Chars, MaxLen) \cup NormExamples
    /\ num_out = NotYet
    /\ IdleClock

Normalize ==
    /\ num_out = NotYet
    /\ num_out' = normalize_euro(num_in)
    /\ UNCHANGED <<cfgvars, schedvars, cyclevars, histvars, extracted, page,
                   xstage, num_in, clockvars>>

NextNorm == Normalize

SpecNorm == InitNorm /\ [][NextNorm]_vars

----------------------------------------------------------------------------
(* The calendar of loop(), followed on the wall clock: datetime.now() is   *)
(* a number of seconds, day k begins at k * Day.  Time passes while loop()  *)
(* is suspended, in steps of a slot of the day, and the timer of a wait     *)
(* fires at its deadline.                                                   *)

Day == 86400
Slots == 3
MaxDays == 2

Slot == Day \div Slots
TimesOfDay == {k * Slot : k \in 0..(Slots - 1)}
Horizon == MaxDays * Day

\* line 464: datetime.combine(now.date(), self.run_time)
Today(t, at) == (t \div Day) * Day + at

\* variant: an occurrence that is reached at this very instant is waited for
Target_strict(t, at) ==
    IF t > Today(t, at) THEN Today(t, at) + Day ELSE Today(t, at)

\* lines 464-466: target
Target(t, at) ==
    IF t >= Today(t, at) THEN Today(t, at) + Day ELSE Today(t, at)

\* line 467
wait_seconds(t, at) == Target(t, at) - t

InitCalendar ==
    /\ run_time = TRUE
    /\ scan_interval = 1800
    /\ sites \in {<<>>, <<0>>}
    /\ min_price = R(1)
    /\ max_price = R(10)
    /\ IdleSched
    /\ extracted = NoPage
    /\ IdleExtract
    /\ now \in TimesOfDay
    /\ run_at \in TimesOfDay
    /\ next_run = 0

\* variant: after a forced cycle the occurrence of the day is given up
Schedule_consume ==
    /\ pc = "top"
    /\ run_time
    /\ next_run' = IF reason = "force" THEN Today(now, run_at) + Day
                   ELSE Target(now, run_at)
    /\ timeout' = next_run' - now
    /\ pc' = "enter_wait"
    /\ UNCHANGED <<force_event, pending_force_requests, scrape_lock, sleep_done,
                   force_done, reason, inflight>>
    /\ UNCHANGED <<cfgvars, cyclevars, histvars, plausvars, now, run_at>>

\* loop(), lines 462-471, with the clock read
Schedule ==
    /\ pc = "top"
    /\ run_time
    /\ next_run' = Target(now, run_at)
    /\ timeout' = wait_seconds(now, run_at)
    /\ pc' = "enter_wait"
    /\ UNCHANGED <<force_event, pending_force_requests, scrape_lock, sleep_done,
                   force_done, reason, inflight>>
    /\ UNCHANGED <<cfgvars, cyclevars, histvars, plausvars, now, run_at>>

\* asyncio.sleep(wait_seconds) completes at the instant waited for
TimerFires ==
    /\ now >= next_run
    /\ SleepDone

\* time passes while loop() is suspended; a wait is left at its deadline
Tick ==
    /\ Suspended
    /\ pc = "wait" => now < next_run
    /\ now + Slot <= Horizon
    /\ now' = now + Slot
    /\ UNCHANGED <<cfgvars, schedvars, cyclevars, histvars, plausvars, run_at,
                   next_run>>

NextCalendar ==
    \/ LoopStart
    \/ Schedule
    \/ EnterWait
    \/ TimerFires
    \/ WaitReturns
    \/ ApplyForceRequest
    \/ Tick
    \/ CooldownEnds
    \/ PrimaryResponse
    \/ RetryResponse
    \/ NextTarget
    \/ CycleEnd

SpecCalendar == InitCalendar /\ [][NextCalendar]_vars

----------------------------------------------------------------------------
(* Claims about the scheduler *)

\* a step of loop() that starts a cycle, one that ends it normally, one in
\* which an exception leaves it
CycleStarts == pc # "scrape" /\ pc' = "scrape"
CycleCompletes == pc = "scrape" /\ pc' \notin {"scrape", "cooldown"}
CycleFails == pc = "scrape" /\ pc' = "cooldown"

\* the step starts a cycle tagged "force" and consumes the latch
ForceCycleStarts ==
    /\ CycleStarts
    /\ reason' = "force"
    /\ force_event' = "clear"
    /\ served_from' = sig_at
    /\ sig_at' = "none"

\* C1: a request applied while a cycle is in flight is latched; when that
\* cycle completes the latch is still set, the next wait is entered with it
\* (in calendar mode through the top of the loop) and starts a cycle tagged
\* "force" that clears it; a "force" cycle starts only by consuming a latched
\* request, so one latch gives one forced cycle, not zero and not two.
C1_InFlightRequestForcesOneCycle ==
    /\ [](sig_at = "cycle" => force_event = "set")
    /\ [][CycleCompletes /\ sig_at = "cycle"
            => pc' = AfterCycle /\ sig_at' = "cycle" /\ force_event' = "set"]_vars
    /\ [][pc = "top" /\ run_time /\ force_event = "set"
            => pc' = "enter_wait" /\ force_event' = "set" /\ sig_at' = sig_at]_vars
    /\ [][pc = "enter_wait" /\ force_event = "set" => ForceCycleStarts]_vars
    /\ [][CycleStarts /\ reason' = "force"
            => force_event = "set" /\ sig_at # "none" /\ ForceCycleStarts]_vars
    /\ [][CycleStarts /\ force_event # "set" => reason' = "scheduled"]_vars

C1_Witness ==
    pc = "scrape" /\ reason = "force" /\ served_from = "cycle"

\* C2: a request applied before loop() has created the event is counted in the
\* pending counter, becomes the set latch when loop() starts and stays latched
\* until a cycle tagged "force" consumes it: in calendar mode before any other
\* cycle has started, in interval mode at the wait that follows the completed
\* initial cycle.
C2_EarlyRequestNotLost ==
    /\ [](pc = "init" => /\ force_event = "None"
                         /\ sig_at \in {"none", "init"}
                         /\ (sig_at = "init" <=> pending_force_requests > 0))
    /\ [](pc # "init" => force_event # "None" /\ pending_force_requests = 0)
    /\ [](sig_at = "init" /\ pc # "init" => force_event = "set")
    /\ [][sig_at = "init" /\ sig_at' # "init"
            => ForceCycleStarts /\ served_from' = "init"]_vars
    /\ [](run_time /\ sig_at = "init" => reason = "none")
    /\ [][~run_time /\ sig_at = "init" /\ CycleCompletes
            => pc' = "enter_wait" /\ sig_at' = "init"]_vars
    /\ [][sig_at = "init" /\ pc = "enter_wait" => ForceCycleStarts]_vars

C2_Witness ==
    pc = "scrape" /\ reason = "force" /\ served_from = "init"

\* C4: at most one scrape cycle is in flight, and it holds the lock.
C4_SingleFlight ==
    /\ inflight <= 1
    /\ (inflight = 1 <=> scrape_lock = "held")
    /\ (inflight = 1 <=> pc = "scrape")

\* a refresh request is latched while a cycle is in flight
C4_Witness ==
    inflight = 1 /\ scrape_lock = "held" /\ force_event = "set" /\ sig_at = "cycle"

\* the wait of _wait_for_force ends; the cycle that follows is scheduled
WaitEnds == pc = "wait" /\ pc' # "wait"
ScheduledNext ==
    IF run_time THEN CycleStarts /\ reason' = "scheduled" ELSE pc' = "top"

\* C3 as stated: a latched request ends the wait with a cycle tagged "force"
\* and a cleared latch; the cycle is scheduled exactly when the timer has
\* expired with the latch unset.
C3_LatchDecidesTheRace ==
    /\ [][pc = "enter_wait" /\ force_event = "set" => ForceCycleStarts]_vars
    /\ [][WaitEnds /\ force_event = "set" => ForceCycleStarts]_vars
    /\ [][WaitEnds /\ force_event # "set" => sleep_done /\ ScheduledNext]_vars
    /\ [][pc = "top" /\ ~run_time => CycleStarts /\ reason' = "scheduled"]_vars

\* C3, amended: a request latched when the wait begins, or applied before the
\* timer has expired, completes the signal wait, which ends the wait at once
\* with a cycle tagged "force" and a cleared latch; the cycle is scheduled
\* exactly when the wait returns with the timer expired and the signal wait
\* not completed, and then a request applied after the expiry stays latched.
C3_CompletedTaskDecidesTheRace ==
    /\ [][pc = "enter_wait" /\ force_event = "set" => ForceCycleStarts]_vars
    /\ [](pc = "wait" /\ force_event = "set" /\ ~force_done
            => sleep_done /\ sig_at = "wait")
    /\ [](pc = "wait" /\ force_done => force_event = "set" /\ ENABLED WaitReturns)
    /\ [][WaitEnds /\ force_done => ForceCycleStarts]_vars
    /\ [][WaitEnds /\ ~force_done
            => /\ sleep_done
               /\ ScheduledNext
               /\ force_event' = force_event
               /\ sig_at' = sig_at]_vars
    /\ [][pc = "top" /\ ~run_time => CycleStarts /\ reason' = "scheduled"]_vars

\* a scheduled cycle runs with the request of the last wait still latched
C3_Witness ==
    pc = "scrape" /\ reason = "scheduled" /\ force_event = "set" /\ sig_at = "wait"

\* C20: a request applied to a set latch changes nothing, so any number of
\* them is one request; the requests counted before loop() has started become
\* one set latch and a counter of 0, however many they are; the latch stays
\* set until the start of one cycle tagged "force" clears it, and after that
\* a cycle tagged "force" needs a new request.
C20_RepeatedRequestsAreOne ==
    /\ [](force_event = "set" => ~ENABLED <<ApplyForceRequest>>_vars)
    /\ [](pc = "init" => (pending_force_requests > 0 <=> sig_at = "init"))
    /\ [][pc = "init" /\ pc' # "init"
            => /\ pending_force_requests' = 0
               /\ force_event' = IF pending_force_requests > 0 THEN "set" ELSE "clear"
               /\ UNCHANGED <<pub, reason, inflight, histvars>>]_vars
    /\ [](pc # "init" => pending_force_requests = 0)
    /\ [](pc # "init" => (force_event = "set" <=> sig_at # "none"))
    /\ [][force_event = "set" /\ force_event' # "set" => ForceCycleStarts]_vars
    /\ [][CycleStarts /\ reason' = "force"
            => force_event = "set" /\ force_event' = "clear" /\ sig_at' = "none"]_vars

\* two requests are counted before loop() has started
C20_Witness ==
    pc = "init" /\ pending_force_requests = 2 /\ sig_at = "init"

----------------------------------------------------------------------------
(* Claims about the waits between the cycles *)

\* C21: in interval mode a completed cycle, scheduled or forced, is followed
\* by one wait armed with scan_interval (none at all with a latched request
\* or an interval of 0); the wait ends no later than its timer; a wait that
\* ends with no request latched ended by its timer, and the cycle that
\* follows is tagged "scheduled".
C21_IntervalWait ==
    /\ [][~run_time /\ CycleCompletes => pc' = "enter_wait"]_vars
    /\ [][~run_time /\ pc = "enter_wait"
            => /\ timeout' = scan_interval
               /\ IF force_event = "set" THEN ForceCycleStarts
                  ELSE IF scan_interval <= 0 THEN pc' = "top"
                  ELSE pc' = "wait" /\ ~sleep_done' /\ ~force_done']_vars
    /\ [](~run_time /\ pc = "wait" => timeout = scan_interval)
    /\ [](pc = "wait" /\ sleep_done => ENABLED WaitReturns)
    /\ [][~run_time /\ WaitEnds /\ sig_at = "none"
            => sleep_done /\ pc' = "top" /\ UNCHANGED reason]_vars
    /\ [][~run_time /\ pc = "top" => CycleStarts /\ reason' = "scheduled"]_vars

\* the wait after a forced cycle has run to its timer
C21_Witness ==
    /\ ~run_time
    /\ scan_interval = 1800
    /\ pc = "top"
    /\ reason = "force"
    /\ sig_at = "none"

----------------------------------------------------------------------------
\* C26: a request applied during the back-off after a failed cycle leaves
\* loop() in its back-off, which ends only by its own sleep of 30 seconds;
\* the request is latched and stays latched until the start of a cycle tagged
\* "force" consumes it: in interval mode the loop first starts the scheduled
\* cycle at its top and serves the request at the wait after it, in calendar
\* mode the wait entered from the top returns at once.
C26_RequestDuringCooldown ==
    /\ [][pc = "cooldown" /\ force_event' # force_event
            => pc' = "cooldown" /\ force_event' = "set" /\ timeout' = Cooldown]_vars
    /\ [][pc = "cooldown" /\ pc' # "cooldown"
            => pc' = "top" /\ force_event' = force_event /\ sig_at' = sig_at]_vars
    /\ [](sig_at = "cooldown" => force_event = "set")
    /\ [][sig_at = "cooldown" /\ sig_at' # "cooldown"
            => ForceCycleStarts /\ served_from' = "cooldown"]_vars
    /\ [][~run_time /\ pc = "top" /\ sig_at = "cooldown"
            => CycleStarts /\ reason' = "scheduled" /\ sig_at' = "cooldown"]_vars
    /\ [][~run_time /\ CycleCompletes /\ sig_at = "cooldown"
            => pc' = "enter_wait" /\ sig_at' = "cooldown"]_vars
    /\ [][run_time /\ pc = "top" /\ sig_at = "cooldown"
            => pc' = "enter_wait" /\ sig_at' = "cooldown"]_vars
    /\ [][pc = "enter_wait" /\ sig_at = "cooldown" => ForceCycleStarts]_vars

\* in interval mode the request of the back-off is served
C26_Witness ==
    /\ ~run_time
    /\ pc = "scrape"
    /\ reason = "force"
    /\ served_from = "cooldown"

\* C22: in calendar mode the instant waited for is the occurrence of the
\* configured time of day that comes first strictly after the current time:
\* today's when it is not reached yet, else tomorrow's; the wait handed to
\* _wait_for_force is the distance to it, more than 0 and at most one day.
C22_NextOccurrence ==
    pc = "enter_wait" =>
        /\ next_run % Day = run_at
        /\ now < next_run
        /\ next_run <= now + Day
        /\ (next_run \div Day = now \div Day) <=> (now % Day < run_at)
        /\ timeout = next_run - now
        /\ 0 < timeout
        /\ timeout <= Day

\* the configured time is reached at this very instant: tomorrow's is taken
C22_Witness ==
    /\ pc = "enter_wait"
    /\ now % Day = run_at
    /\ timeout = Day
    /\ reason = "scheduled"

\* C27: in calendar mode the wait that follows a forced cycle completed
\* before today's occurrence of the configured time is the wait for that
\* occurrence; a wait that ends with no request latched ends at the instant
\* waited for and starts a cycle tagged "scheduled"; a cycle tagged
\* "scheduled" starts only at an occurrence of the configured time, and the
\* wait that follows it is for an occurrence of a later day.
C27_ForcedKeepsScheduledRun ==
    /\ [][pc = "top" /\ reason = "force" /\ now < Today(now, run_at)
            => /\ pc' = "enter_wait"
               /\ next_run' = Today(now, run_at)
               /\ timeout' = next_run' - now]_vars
    /\ [][WaitEnds /\ sig_at = "none"
            => now = next_run /\ CycleStarts /\ reason' = "scheduled"]_vars
    /\ [][CycleStarts /\ reason' = "scheduled"
            => now = next_run /\ next_run % Day = run_at /\ now' = now]_vars
    /\ [][pc = "top" /\ reason = "scheduled" => next_run' >= next_run + Day]_vars

\* after a forced cycle the timer of the wait for today's occurrence fires
C27_Witness ==
    /\ pc = "wait"
    /\ reason = "force"
    /\ sig_at = "none"
    /\ sleep_done
    /\ now = next_run
    /\ next_run = Today(now, run_at)
    /\ next_run < Day

(* Claims about the scrape cycle *)

LastMsg == pub[Len(pub)]

\* C5: a cycle is left only after every configured target has its record,
\* whatever failed for a target.
C5_FailureNeverAbortsCycle ==
    [][pc = "scrape" /\ pc' # "scrape"
         => stage \in {"closing", "returning"} /\ Len(outcomes) = Len(sites)]_vars

\* C6: a target gets its primary fetch and, exactly when that answered 403 or
\* 406, one more fetch with the alternate headers; after any other HTTP error
\* status or a transport exception of the primary fetch the target has one
\* fetch and an error record.
C6_RetryOnlyOnBlockingStatus ==
    pc = "scrape" /\ stage \in {"primary", "retry", "emitted"}
    => /\ Len(reqs) \in {1, 2}
       /\ reqs[1].profile = "primary"
       /\ Len(reqs) = 2 => reqs[2].profile = "alt"
       /\ stage = "primary" => Len(reqs) = 1 /\ reqs[1].resp = Pending
       /\ stage = "retry" => Len(reqs) = 2 /\ reqs[2].resp = Pending
       /\ stage # "primary"
            => (Len(reqs) = 2 <=> (~reqs[1].resp.exc /\ reqs[1].resp.status \in {403, 406}))
       /\ stage = "emitted" /\ Len(reqs) = 1
                            /\ (reqs[1].resp.exc \/ reqs[1].resp.status >= 400)
            => IsError(LastMsg) /\ outcomes[idx].records = <<"error">>

C6_Witness ==
    /\ stage = "emitted"
    /\ Len(reqs) = 2
    /\ reqs[1].resp.status = 406
    /\ reqs[2].resp.status = 200

\* C7: when the retry of a blocked target answers with an HTTP error status
\* too, the target gets an error record and a null state.
C7_RetryExhaustionIsError ==
    stage = "emitted" /\ Len(reqs) = 2 /\ reqs[2].resp.status >= 400
    => IsError(LastMsg) /\ IsNone(pub[Len(pub) - 1].payload.price)

\* C8: an exception that leaves a cycle takes loop() to its 30 second
\* back-off with the lock released and the latch untouched; after the back-off
\* the loop is at its top again, and loop() always has a next step.
C8_ExceptionBacksOff ==
    /\ [][pc = "scrape" /\ pc' # "scrape" /\ stage \notin {"closing", "returning"}
            => /\ pc' = "cooldown"
               /\ timeout' = 30
               /\ scrape_lock' = "free"
               /\ inflight' = 0
               /\ force_event' = force_event]_vars
    /\ [](pc = "cooldown" => timeout = 30)
    /\ [](pc \in {"top", "enter_wait", "wait", "cooldown"} => scrape_lock = "free")
    /\ [][pc = "cooldown" /\ pc' # "cooldown" => pc' = "top"]_vars
    /\ []ENABLED (LoopStart \/ Top \/ EnterWait \/ SleepDone \/ WaitReturns
                    \/ CooldownEnds \/ PrimaryResponse \/ RetryResponse
                    \/ NextTarget \/ CycleEnd)

C8_Witness ==
    pc = "cooldown" /\ timeout = 30 /\ scrape_lock = "free" /\ inflight = 0

\* C9: the targets get their records in the configured order, one record
\* each: after the discovery message a state and an attribute message, the
\* attributes either those of a checked page or those of an error with a null
\* state; a cycle that is about to return has a record for every target.
C9_OneOutcomePerTargetInOrder ==
    /\ Len(outcomes) <= Len(sites)
    /\ \A k \in 1..Len(outcomes) :
          /\ outcomes[k].site = k
          /\ outcomes[k].records \in {<<"state">>, <<"error">>}
    /\ stage = "closing" => Len(outcomes) = Len(sites)
    /\ stage \in {"primary", "retry"}
         => Len(outcomes) = idx - 1 /\ pub = <<Discovery(idx)>>
    /\ stage = "emitted"
         => /\ Len(outcomes) = idx
            /\ Len(pub) = 3
            /\ pub[1] = Discovery(idx)
            /\ pub[2].topic = "state" /\ pub[2].site = idx
            /\ pub[3].topic = "attr" /\ pub[3].site = idx
            /\ DOMAIN pub[2].payload = {"price"}
            /\ IsError(pub[3]) => IsNone(pub[2].payload.price)
            /\ IsAttrs(pub[3])
                 => {"currency", "source_method", "status_code"}
                        \subseteq DOMAIN pub[3].payload

C9_Witness ==
    /\ stage = "closing"
    /\ Len(outcomes) = 2
    /\ outcomes[1].records = <<"error">>
    /\ outcomes[2].records = <<"state">>

----------------------------------------------------------------------------
(* Claims about the divisor of a target *)

InBounds(x) == Leq(min_price, x) /\ Leq(x, max_price)

\* C23: for a target with a positive divisor d whose page gave a price, the
\* bounds check and the divisions by 100 and by 10 see the price divided by
\* d; the published method is the tag of the extractor, "+div", at most one
\* heuristic tag, and "+ok" or "+retry" for the fetch that gave the page.  A
\* rejected price is reported divided by d with the method up to "+div".
C23_DivisorFirst ==
    /\ stage = "emitted"
    /\ sites[idx] > 0
    /\ IsError(pub[3]) => pub[3].payload.error = "price_out_of_range"
    /\ IsAttrs(pub[3]) => ~IsNone(pub[2].payload.price)
    =>  LET d    == sites[idx]
            m    == IF IsError(pub[3]) THEN pub[3].payload.method
                    ELSE pub[3].payload.source_method
            tags == IF IsError(pub[3]) THEN <<>> ELSE SubSeq(m, 3, Len(m) - 1)
            k    == IF tags = <<"+heuristic_div100">> THEN 100
                    ELSE IF tags = <<"+heuristic_div10">> THEN 10 ELSE 1
        IN  /\ Len(m) >= 2
            /\ m[2] = "+div"
            /\ \E ex \in ExtractResults :
                  /\ ex.method = <<m[1]>>
                  /\ ~IsNone(ex.price)
                  /\ IF IsError(pub[3])
                     THEN /\ m = ex.method \o <<"+div">>
                          /\ Same(pub[3].payload.raw_price, Div(ex.price, d))
                          /\ ~InBounds(Div(ex.price, d))
                          /\ ~InBounds(Div(ex.price, d * 100))
                          /\ ~InBounds(Div(ex.price, d * 10))
                     ELSE /\ tags \in {<<>>, <<"+heuristic_div100">>,
                                       <<"+heuristic_div10">>}
                          /\ m = ex.method \o <<"+div">> \o tags
                                   \o <<IF Len(reqs) = 2 THEN "+retry" ELSE "+ok">>
                          /\ Same(pub[2].payload.price, Div(ex.price, d * k))
                          /\ InBounds(Div(ex.price, d * k))
                          /\ k = 1 <=> InBounds(Div(ex.price, d))
                          /\ k = 10 => ~InBounds(Div(ex.price, d * 100))

\* 7000 with the divisor 10 and the bounds [1, 10], fetched by the retry:
\* 700 is out of the bounds, 7 is published
C23_Witness ==
    /\ stage = "emitted"
    /\ sites[idx] = 10
    /\ IsAttrs(pub[3])
    /\ Same(pub[2].payload.price, R(7))
    /\ pub[3].payload.source_method =
          <<"text-fallback", "+div", "+heuristic_div100", "+retry">>

----------------------------------------------------------------------------
(* Claims about the plausibility correction *)

\* C10: with p the price that enters the bounds check (the extracted price,
\* divided by a positive divisor of the target): p within [min, max] is
\* published unchanged without a heuristic tag; else p/100 within the bounds is
\* published with "+heuristic_div100"; else p/10 within the bounds is published
\* with "+heuristic_div10"; else the target gets the error
\* "price_out_of_range".  p/100 wins when p/100 and p/10 both fit.
C10_PlausibilityCorrection ==
    pub # <<>> =>
        LET n    == extracted.price.n
            dv   == IF sites[1] > 0 THEN sites[1] ELSE 1
            base == IF sites[1] > 0 THEN <<"jsonld", "+div">> ELSE <<"jsonld">>
            Fits(k) == min_price.n * dv * k <= n /\ n <= max_price.n * dv * k
            Is(k, tags) ==
                /\ IsAttrs(pub[2])
                /\ ~IsNone(pub[1].payload.price)
                /\ pub[1].payload.price.n * dv * k = n * pub[1].payload.price.d
                /\ pub[2].payload.source_method = base \o tags \o <<"+ok">>
        IN  IF Fits(1) THEN Is(1, <<>>)
            ELSE IF Fits(100) THEN Is(100, <<"+heuristic_div100">>)
            ELSE IF Fits(10) THEN Is(10, <<"+heuristic_div10">>)
            ELSE /\ IsError(pub[2])
                 /\ pub[2].payload.error = "price_out_of_range"
                 /\ IsNone(pub[1].payload.price)

\* 100 with the bounds [1, 10]: 100/100 and 100/10 both fit, 1 is published
C10_Witness ==
    /\ pub # <<>>
    /\ extracted.price = R(100)
    /\ sites = <<0>>
    /\ min_price = R(1)
    /\ max_price = R(10)
    /\ Same(pub[1].payload.price, R(1))
    /\ pub[2].payload.source_method = <<"jsonld", "+heuristic_div100", "+ok">>

\* C11: the record of a rejected price has the reason "price_out_of_range";
\* its raw_price is the price that entered the bounds check (the extracted
\* price, divided by a positive divisor of the target, before any division by
\* 100 or 10), its min and max are the configured bounds, its method carries
\* no heuristic tag, and the state published with it is null.
C11_OutOfRangeRecord ==
    pub # <<>> /\ IsError(pub[2]) =>
        LET dv   == IF sites[1] > 0 THEN sites[1] ELSE 1
            base == IF sites[1] > 0 THEN <<"jsonld", "+div">> ELSE <<"jsonld">>
            raw  == pub[2].payload.raw_price
        IN  /\ pub[2].payload.error = "price_out_of_range"
            /\ ~IsNone(raw)
            /\ raw.n * dv = extracted.price.n * raw.d
            /\ pub[2].payload.min = min_price
            /\ pub[2].payload.max = max_price
            /\ pub[2].payload.method = base
            /\ pub[1].topic = "state"
            /\ IsNone(pub[1].payload.price)

\* 7 with the bounds [1, 3]: neither 0.07 nor 0.7 fits
C11_Witness ==
    /\ pub # <<>>
    /\ extracted.price = R(7)
    /\ sites = <<0>>
    /\ min_price = R(1)
    /\ max_price = R(3)
    /\ IsError(pub[2])
    /\ Same(pub[2].payload.raw_price, R(7))

\* C12: with a divisor that is zero or negative the target is processed as
\* if no divisor were configured: the extracted price itself goes through the
\* bounds check and its repairs, no "+div" tag is added, and the only error
\* the target can get is that of a price out of range.
C12_NonPositiveDivisorSkipped ==
    pub # <<>> /\ sites[1] <= 0 =>
        LET fx == Plausibility(extracted.price, extracted.method,
                               min_price, max_price)
        IN  IF fx.ok
            THEN pub = PublishState(1, fx.price, extracted.currency,
                                    fx.method, "+ok", 200)
            ELSE /\ IsError(pub[2])
                 /\ pub[2].payload.error = "price_out_of_range"
                 /\ pub[2].payload.raw_price = extracted.price
                 /\ pub[2].payload.method = extracted.method

\* a divisor of -2: 5 is published as 5
C12_Witness ==
    /\ pub # <<>>
    /\ sites = <<-2>>
    /\ extracted.price = R(5)
    /\ min_price = R(1)
    /\ max_price = R(10)
    /\ pub[1].payload.price = R(5)
    /\ pub[2].payload.source_method = <<"jsonld", "+ok">>

----------------------------------------------------------------------------
\* C25: every state message with a price that is not null carries a price
\* within [min_price, max_price], whatever the divisor and the repair, and
\* it comes with the attributes of a checked page, not with an error.
C25_PublishedWithinBounds ==
    \A k \in 1..Len(pub) :
        pub[k].topic = "state" /\ ~IsNone(pub[k].payload.price)
        => /\ InBounds(pub[k].payload.price)
           /\ k < Len(pub)
           /\ IsAttrs(pub[k + 1])

\* 1200 with the divisor 10 and the bounds [1, 10]: 120 is out of the bounds,
\* 1.2 is published
C25_Witness ==
    /\ pub # <<>>
    /\ extracted.price = R(1200)
    /\ sites = <<10>>
    /\ min_price = R(1)
    /\ max_price = R(10)
    /\ IsAttrs(pub[2])
    /\ Same(pub[1].payload.price, [n |-> 12, d |-> 10])

----------------------------------------------------------------------------
(* Claims about extract_price and normalize_euro *)

\* no strategy finds a price in the page: no JSON item gives one, no selected
\* element has a match, no match in the text is a number
NoPriceAnywhere ==
    /\ FromLd(page.ld).kind = "miss"
    /\ \A k \in 1..Len(page.hints) : page.hints[k].match = <<>>
    /\ \A k \in 1..Len(page.text) : IsNone(normalize_euro(page.text[k]))

\* C13: for a fetched page in which no strategy finds a price, extract_price
\* returns a null price with the method "none", and the target is published
\* with a null state and attributes that carry the method "none" and the HTTP
\* status, not an error.
C13_NoMatchIsNullState ==
    NoPriceAnywhere /\ xstage # "unread"
    => /\ xstage = "returned"
       /\ extracted = NoPage
       /\ pub # <<>> => /\ pub[1] = StateMsg(1, None)
                        /\ IsAttrs(pub[2])
                        /\ pub[2].payload.source_method[1] = "none"
                        /\ pub[2].payload.status_code = 200
                        /\ \A k \in 1..Len(pub) : ~IsError(pub[k])

\* the first selected element that has a match
FirstMatch ==
    CHOOSE k \in 1..Len(page.hints) :
        /\ page.hints[k].match # <<>>
        /\ \A j \in 1..(k - 1) : page.hints[j].match = <<>>

\* C14: a price in the JSON blocks is returned with "jsonld" or "jsonld-root"
\* whatever the selectors and the text hold; without one, the value of the
\* first selected element that has a match is returned whatever the text
\* holds; "text-fallback" is returned only when neither gave anything.
C14_StrictPriority ==
    xstage # "unread" =>
        IF FromLd(page.ld).kind = "hit"
        THEN /\ xstage = "returned"
             /\ extracted.price = FromLd(page.ld).price
             /\ extracted.method \in {<<"jsonld">>, <<"jsonld-root">>}
        ELSE IF \E k \in 1..Len(page.hints) : page.hints[k].match # <<>>
        THEN /\ xstage = "returned"
             /\ extracted.price = normalize_euro(page.hints[FirstMatch].match)
             /\ extracted.method = <<SelectorTag[page.hints[FirstMatch].sel]>>
        ELSE xstage = "returned" => extracted.method \in {<<"text-fallback">>, <<"none">>}

\* the first JSON item of the page has the integer k as its price: in its
\* offers, or at its root when it has no offers
FirstPriceIsInt(k) ==
    /\ page.ld # <<>>
    /\ page.ld[1].dict
    /\ \/ page.ld[1].offers.dict /\ page.ld[1].offers.price = JInt(k)
       \/ /\ ~page.ld[1].offers.dict
          /\ page.ld[1].has_price
          /\ page.ld[1].price = JInt(k)

Cents(k) == IF k >= 10000 THEN [n |-> k, d |-> 100] ELSE R(k)

\* C15 as stated: an integer price k is returned as k/100 when k >= 10000 and
\* as k when k < 10000.
C15_IntegerCents ==
    xstage # "unread" =>
        \A k \in CentsInts \cup {9999, 12999} :
            FirstPriceIsInt(k)
            => xstage = "returned" /\ Same(extracted.price, Cents(k))
                                   /\ ~IsNone(extracted.price)

\* C15, amended: an integer price k other than 0 in the offers, or any integer
\* price k at the root, is returned as k/100 when k >= 10000 and as k when
\* k < 10000; a price of 0 in the offers counts as absent.
C15_NonZeroIntegerCents ==
    xstage # "unread" =>
        \A k \in CentsInts \cup {9999, 12999} :
            FirstPriceIsInt(k) /\ (k # 0 \/ ~page.ld[1].offers.dict)
            => /\ xstage = "returned"
               /\ ~IsNone(extracted.price)
               /\ Same(extracted.price, Cents(k))
               /\ extracted.method
                    = IF page.ld[1].offers.dict THEN <<"jsonld">> ELSE <<"jsonld-root">>

\* 12999 in the offers is returned as 129.99
C15_Witness ==
    /\ xstage = "returned"
    /\ FirstPriceIsInt(12999)
    /\ page.ld[1].offers.dict
    /\ extracted.price = [n |-> 12999, d |-> 100]
    /\ extracted.method = <<"jsonld">>

\* C16: a price given as a string is returned as the number it stands for,
\* except that a string of digits only with a value of 10000 or more is
\* divided by 100.
C16_StringCents ==
    xstage = "returned" /\ Len(page.ld) = 1 /\ page.ld[1].dict
        /\ ~page.ld[1].offers.dict /\ page.ld[1].has_price
        /\ page.ld[1].price.t = "str" /\ ~IsNone(try_float(page.ld[1].price))
    => LET str == page.ld[1].price.s
       IN  IF IsDigit(str) /\ IntOf(str) >= 10000
           THEN Same(extracted.price, [n |-> IntOf(str), d |-> 100])
           ELSE Same(extracted.price, try_float(page.ld[1].price))

\* the numbers of the matches in the text, and how many of them are below v,
\* or at most v
TextValues ==
    SelectSeq([k \in 1..Len(page.text) |-> normalize_euro(page.text[k])],
              LAMBDA c : ~IsNone(c))
Below(v) == Cardinality({k \in 1..Len(TextValues) : ~Leq(v, TextValues[k])})
AtMost(v) == Cardinality({k \in 1..Len(TextValues) : Leq(TextValues[k], v)})
Distinct == Cardinality({TextValues[k] : k \in 1..Len(TextValues)})

\* the returned price is the element of index floor(n/2) of the sorted
\* numbers, which is one of them
IsMedian ==
    /\ \E k \in 1..Len(TextValues) : TextValues[k] = extracted.price
    /\ Below(extracted.price) <= Len(TextValues) \div 2
    /\ AtMost(extracted.price) > Len(TextValues) \div 2

\* C17 as stated: the text fallback returns the element of index floor(n/2)
\* of the sorted numbers, and with three or more distinct numbers neither the
\* smallest nor the largest.
C17_MedianNeverExtreme ==
    xstage = "returned" /\ extracted.method = <<"text-fallback">>
    => /\ IsMedian
       /\ Distinct >= 3 => Below(extracted.price) > 0
                           /\ AtMost(extracted.price) < Len(TextValues)

\* C17, amended: the text fallback returns the element of index floor(n/2) of
\* the sorted numbers; when the numbers are three or more and no two of them
\* are equal, it is neither the smallest nor the largest.
C17_MedianOfMatches ==
    xstage = "returned" /\ extracted.method = <<"text-fallback">>
    => /\ IsMedian
       /\ Distinct >= 3 /\ Distinct = Len(TextValues)
            => Below(extracted.price) > 0
               /\ AtMost(extracted.price) < Len(TextValues)

\* the matches 10, 1000, 20 give 20
C17_Witness ==
    /\ xstage = "returned"
    /\ page.text = <<N10, N1000, N20>>
    /\ extracted.method = <<"text-fallback">>
    /\ extracted.price = R(20)

\* the rule of C18 for the string num_in: without its spaces, the separator
\* that is removed and the one that becomes the decimal point
Unspaced == SelectSeq(num_in, LAMBDA c : c # " ")
BothKinds == (\E k \in 1..Len(Unspaced) : Unspaced[k] = ".")
                /\ (\E k \in 1..Len(Unspaced) : Unspaced[k] = ",")
FirstSeparator ==
    Unspaced[CHOOSE k \in 1..Len(Unspaced) :
                /\ Unspaced[k] \in {".", ","}
                /\ \A j \in 1..(k - 1) : Unspaced[j] \notin {".", ","}]
Thousands == IF BothKinds THEN FirstSeparator ELSE "."
Decimal == IF Thousands = "." THEN "," ELSE "."
Remaining ==
    LET kept == SelectSeq(Unspaced, LAMBDA c : c # Thousands)
    IN  [k \in 1..Len(kept) |-> IF kept[k] = Decimal THEN "." ELSE kept[k]]

C19_ResultInvariant ==
    xstage # "unread"
    => /\ xstage = "returned"
       /\ IsNone(extracted.price) \/ extracted.price.n >= 0
       /\ extracted.method # <<>>
       /\ extracted.method[1] # ""

\* C24: extract_price returns a null price only with the method "none": a
\* match that normalize_euro cannot turn into a number is passed over, so a
\* page with a match elsewhere that can be normalized gives a price.
C24_NullOnlyWithNone ==
    xstage = "returned" =>
        /\ IsNone(extracted.price) => extracted.method = <<"none">>
        /\ (\E k \in 1..Len(page.text) : ~IsNone(normalize_euro(page.text[k])))
              => ~IsNone(extracted.price)

====
